---------------------------- MODULE Spec2Model ----------------------------
(***************************************************************************)
(* A model of src/ab_test_analysis.py: the ABTestAnalyzer class (data      *)
(* generation from the shared numpy generator, the six analysis stages     *)
(* that fill the results mapping, run_full_analysis and its                *)
(* recommendation) and main (chart and CSV artifacts).                     *)
(*                                                                         *)
(* Numbers.  A Python/numpy float is a record [tag, v]: tag "fin" with v   *)
(* the value in hundredths (fixed point, SCALE = 100, every division and   *)
(* square root rounded to the nearest hundredth, as a float operation      *)
(* rounds to the nearest double), tag "inf" with v the sign, or tag "nan". *)
(* Division by zero follows numpy (the module silences the warning at      *)
(* line 22): x/0 is nan for x = 0 and a signed infinity otherwise.         *)
(* Python ints (n_per_group, monthly_visitors, avg_order_value) stay       *)
(* integers.                                                               *)
(***************************************************************************)
EXTENDS Integers, Sequences, FiniteSets, TLC

VARIABLES
    stream42,        \* what the generator yields after np.random.seed(42)
    rng,             \* the shared numpy generator: [seeded, pos]
    status,          \* the analyzer object: "none", "ready", or the exception __init__ raised
    cfg,             \* self.control_rate, treatment_rate, n_per_group, alpha
    df,              \* self.df: the converted column, split by group
    results,         \* self.results
    pc,              \* position inside run_full_analysis
    is_significant,  \* the local of run_full_analysis (line 235)
    recommendation,  \* the branch of lines 271-278 that printed
    exc,             \* the exception that ended the running call, "" when none
    mainpc,          \* position inside main
    outputs_dir,     \* whether the directory outputs/ exists
    artifacts,       \* the files written and the warnings printed by main
    first            \* an earlier analyzer kept by the caller (two-analyzer runs)

vars == <<stream42, rng, status, cfg, df, results, pc, is_significant,
          recommendation, exc, mainpc, outputs_dir, artifacts, first>>

---------------------------------------------------------------------------
(* Bounds of the model *)

\* largest n_per_group
MaxN == 3

\* largest n_per_group of the analyzers run from given cohorts
MaxCohort == 5

\* fixed-point scale, two decimal digits: one unit is 1/SCALE
SCALE == 10 * 10

---------------------------------------------------------------------------
(* Floats *)

Fin(x) == [tag |-> "fin", v |-> x]
NaN    == [tag |-> "nan", v |-> 0]
Inf(s) == [tag |-> "inf", v |-> s]

IsFin(x) == x.tag = "fin"
IsNaN(x) == x.tag = "nan"

Sign(i) == IF i > 0 THEN 1 ELSE IF i < 0 THEN -1 ELSE 0
Abs(i)  == IF i < 0 THEN -i ELSE i

\* a / b rounded to the nearest integer, b > 0
RDiv(a, b) == Sign(a) * ((2 * Abs(a) + b) \div (2 * b))

\* round(sqrt(a)) for a >= 0
ISqrt(a) ==
    CHOOSE r \in 0..(a + 1) :
        (r = 0 \/ (2*r - 1) * (2*r - 1) <= 4 * a) /\ 4 * a < (2*r + 1) * (2*r + 1)

FNeg(x) == IF IsNaN(x) THEN NaN ELSE [x EXCEPT !.v = -x.v]

FAbs(x) == IF IsNaN(x) THEN NaN ELSE [x EXCEPT !.v = Abs(x.v)]

FAdd(x, y) ==
    IF IsNaN(x) \/ IsNaN(y) THEN NaN
    ELSE IF IsFin(x) /\ IsFin(y) THEN Fin(x.v + y.v)
    ELSE IF IsFin(x) THEN y
    ELSE IF IsFin(y) THEN x
    ELSE IF x.v = y.v THEN x ELSE NaN

FSub(x, y) == FAdd(x, FNeg(y))

FMul(x, y) ==
    IF IsNaN(x) \/ IsNaN(y) THEN NaN
    ELSE IF IsFin(x) /\ IsFin(y) THEN Fin(RDiv(x.v * y.v, SCALE))
    ELSE IF x.v = 0 \/ y.v = 0 THEN NaN
    ELSE Inf(Sign(x.v) * Sign(y.v))

\* numpy float division: no ZeroDivisionError
FDiv(x, y) ==
    IF IsNaN(x) \/ IsNaN(y) THEN NaN
    ELSE IF IsFin(x) /\ IsFin(y) THEN
        IF y.v = 0 THEN (IF x.v = 0 THEN NaN ELSE Inf(Sign(x.v)))
        ELSE Fin(Sign(y.v) * RDiv(x.v * SCALE, Abs(y.v)))
    ELSE IF IsFin(x) THEN Fin(0)
    ELSE IF IsFin(y) THEN Inf(x.v * (IF y.v < 0 THEN -1 ELSE 1))
    ELSE NaN

\* a Python int times a float
FScale(k, x) ==
    IF IsNaN(x) THEN NaN
    ELSE IF IsFin(x) THEN Fin(k * x.v)
    ELSE IF k = 0 THEN NaN ELSE Inf(Sign(k) * x.v)

FSqrt(x) ==
    IF IsNaN(x) THEN NaN
    ELSE IF x.v < 0 THEN NaN
    ELSE IF IsFin(x) THEN Fin(ISqrt(x.v * SCALE))
    ELSE x

\* x < y; any comparison with nan is False
FLt(x, y) ==
    IF IsNaN(x) \/ IsNaN(y) THEN FALSE
    ELSE IF IsFin(x) /\ IsFin(y) THEN x.v < y.v
    ELSE IF IsFin(x) THEN y.v > 0
    ELSE IF IsFin(y) THEN x.v < 0
    ELSE x.v < y.v

FGt(x, y) == FLt(y, x)

One == Fin(SCALE)

---------------------------------------------------------------------------
(* scipy.stats.norm and numpy.arcsin, tabulated to the hundredth *)

\* NormCdfSteps[k] is the least z (in hundredths) with round(100 * Phi(z)) >= 50 + k
NormCdfSteps ==
    << 2, 4, 7, 9, 12, 14, 17, 19, 22, 25, 27, 30, 32, 35, 38, 40, 43, 46, 49, 52,
       54, 57, 60, 63, 66, 70, 73, 76, 79, 83, 86, 90, 94, 98, 102, 106, 111, 116,
       121, 126, 132, 138, 144, 152, 160, 170, 182, 196, 218, 258 >>

\* stats.norm.cdf
NormCdf(x) ==
    IF IsNaN(x) THEN NaN
    ELSE IF ~IsFin(x) THEN (IF x.v > 0 THEN One ELSE Fin(0))
    ELSE LET upper == 50 + Cardinality({k \in DOMAIN NormCdfSteps : NormCdfSteps[k] <= Abs(x.v)})
         IN  Fin(IF x.v >= 0 THEN upper ELSE SCALE - upper)

\* stats.norm.ppf(1 - tail/2) for a two-sided tail given in hundredths
\* (ppf(0.995) = 2.5758, ppf(0.975) = 1.95996, ppf(0.95) = 1.64485)
NormPpfTwoSided(tail) ==
    CASE tail = 1  -> Fin(258)
      [] tail = 5  -> Fin(196)
      [] tail = 10 -> Fin(164)

\* ArcsinSqrtTable[p + 1] = round(100 * arcsin(sqrt(p / 100)))
ArcsinSqrtTable ==
    << 0, 10, 14, 17, 20, 23, 25, 27, 29, 30, 32, 34, 35, 37, 38, 40, 41, 42, 44, 45,
       46, 48, 49, 50, 51, 52, 54, 55, 56, 57, 58, 59, 60, 61, 62, 63, 64, 65, 66, 67,
       68, 69, 71, 72, 73, 74, 75, 76, 77, 78, 79, 80, 81, 82, 83, 84, 85, 86, 87, 88,
       89, 90, 91, 92, 93, 94, 95, 96, 97, 98, 99, 100, 101, 102, 104, 105, 106, 107,
       108, 109, 111, 112, 113, 115, 116, 117, 119, 120, 122, 123, 125, 127, 128, 130,
       132, 135, 137, 140, 143, 147, 157 >>

\* np.arcsin(np.sqrt(rate)) for a rate in [0, 1]
ArcsinSqrt(rate) == Fin(ArcsinSqrtTable[rate.v + 1])

---------------------------------------------------------------------------
(* The shared generator and the dataset *)

\* the uniforms the generator can yield, in hundredths
UniformLevels == {25, 75}

\* the generator's stream repeats after StreamLen draws
StreamLen == 2 * MaxN

\* the argument of np.random.seed (line 50)
Seed == 42

\* the generator before anybody seeded it: its stream is unknown
Unseeded == [seeded |-> FALSE, seed |-> 0, pos |-> 0]

ReseedSkipped(g) == g

\* np.random.seed(42)
Reseed(g) == [seeded |-> TRUE, seed |-> Seed, pos |-> 0]

\* the next k uniforms the generator in state g can yield
GenUniforms(g, k) ==
    IF g.seeded
    THEN {[i \in 1..k |-> stream42[((g.pos + i - 1) % StreamLen) + 1]]}
    ELSE [1..k -> UniformLevels]

\* the generator after k draws
Advance(g, k) == IF g.seeded THEN [g EXCEPT !.pos = (g.pos + k) % StreamLen] ELSE g

\* one Bernoulli(p) outcome from one uniform
Bernoulli(u, p) == IF u < p THEN 1 ELSE 0

\* np.random.binomial raises ValueError for p outside [0, 1] and for a negative size
BinomialRejects(p, n) == p < 0 \/ p > SCALE \/ n < 0

\* np.random.binomial(1, p, n): the arrays generator state g can yield
Binomial(g, p, n) == {[i \in 1..n |-> Bernoulli(u[i], p)] : u \in GenUniforms(g, n)}

EmptyDf == [control |-> <<>>, treatment |-> <<>>]

NoCfg == [control_rate |-> 0, treatment_rate |-> 0, n_per_group |-> 0, alpha |-> 0]

\* the sum of a 0/1 column
SumSeq(s) == Cardinality({i \in DOMAIN s : s[i] = 1})

---------------------------------------------------------------------------
(* The results mapping and the outcome of a stage *)

EmptyResults == [k \in {} |-> 0]

StoreReplacing(r, new) == new

\* self.results[k] = new[k] for every key of new, the other keys untouched
Store(r, new) ==
    [k \in DOMAIN r \cup DOMAIN new |-> IF k \in DOMAIN new THEN new[k] ELSE r[k]]

\* a call returned, leaving the mapping r
Returns(r) == [exc |-> "", res |-> r]

\* a call raised e, leaving the mapping r
Raises(e, r) == [exc |-> e, res |-> r]

RateKeys == {"control_rate", "treatment_rate"}

\* the 'mean' column of the groupby summary
Mean(bits) == FDiv(Fin(SumSeq(bits) * SCALE), Fin(Len(bits) * SCALE))

---------------------------------------------------------------------------
(* calculate_basic_metrics *)

calculate_basic_metrics(d, r) ==
    IF Len(d.control) = 0
    THEN Raises("KeyError(summary)", r)     \* the summary of an empty frame has no 'Control' row
    ELSE LET control_rate   == Mean(d.control)
             treatment_rate == Mean(d.treatment)
             absolute_lift  == FSub(treatment_rate, control_rate)
             relative_lift  == FScale(100, FSub(FDiv(treatment_rate, control_rate), One))
         IN  Returns(Store(r, [control_rate   |-> control_rate,
                               treatment_rate |-> treatment_rate,
                               absolute_lift  |-> absolute_lift,
                               relative_lift  |-> relative_lift]))

---------------------------------------------------------------------------
(* run_hypothesis_test *)

\* the sum over k = 0 .. last of (1*3*..*(2k-1)) / (2*4*..*(2k)) * cos2^k
RECURSIVE TSeries(_, _, _, _)
TSeries(cos2, k, last, term) ==
    IF k > last THEN Fin(0)
    ELSE FAdd(term,
              TSeries(cos2, k + 1, last,
                      FDiv(FScale(2 * k + 1, FMul(term, cos2)), Fin((2 * k + 2) * SCALE))))

\* 2 * stats.t.sf(|t|, nu) for an even number nu of degrees of freedom:
\* 1 - sin(theta) * series, with tan(theta) = |t| / sqrt(nu)
TTwoSidedP(t, nu) ==
    IF IsNaN(t) \/ nu <= 0 THEN NaN
    ELSE IF ~IsFin(t) THEN Fin(0)
    ELSE LET a      == FAbs(t)
             denom  == FAdd(Fin(nu * SCALE), FMul(a, a))
             sin    == FDiv(a, FSqrt(denom))
             cos2   == FDiv(Fin(nu * SCALE), denom)
             series == TSeries(cos2, 0, (nu \div 2) - 1, One)
             p      == FSub(One, FMul(sin, series))
         IN  IF FLt(p, Fin(0)) THEN Fin(0) ELSE p

\* np.var(bits, ddof=1)
SampleVar(bits) ==
    LET m == Mean(bits)
    IN  FDiv(FScale(Len(bits), FMul(m, FSub(One, m))), Fin((Len(bits) - 1) * SCALE))

\* stats.ttest_ind(a, b): the pooled-variance two-sample t-test
ttest_ind(a, b) ==
    LET n     == Len(a)
        nu    == 2 * n - 2
        svar  == FDiv(FAdd(FScale(n - 1, SampleVar(a)), FScale(n - 1, SampleVar(b))),
                      Fin(nu * SCALE))
        denom == FSqrt(FMul(svar, FAdd(FDiv(One, Fin(n * SCALE)), FDiv(One, Fin(n * SCALE)))))
        t     == FDiv(FSub(Mean(a), Mean(b)), denom)
    IN  <<t, TTwoSidedP(t, nu)>>

run_hypothesis_test(d, r) ==
    IF Len(d.control) = 0
    THEN Raises("ZeroDivisionError", r)    \* 1/control_n with the Python int 0
    ELSE IF ~(RateKeys \subseteq DOMAIN r)
    THEN Raises("KeyError(results)", r)
    ELSE LET control_conv   == SumSeq(d.control)
             control_n      == Len(d.control)
             treatment_conv == SumSeq(d.treatment)
             treatment_n    == Len(d.treatment)
             pooled_prob    == FDiv(Fin((control_conv + treatment_conv) * SCALE),
                                    Fin((control_n + treatment_n) * SCALE))
             pooled_se      == FSqrt(FMul(FMul(pooled_prob, FSub(One, pooled_prob)),
                                          FAdd(FDiv(One, Fin(control_n * SCALE)),
                                               FDiv(One, Fin(treatment_n * SCALE)))))
             z_stat         == FDiv(FSub(r["treatment_rate"], r["control_rate"]), pooled_se)
             p_value        == FScale(2, FSub(One, NormCdf(FAbs(z_stat))))
             tt             == ttest_ind(d.treatment, d.control)
         IN  Returns(Store(r, [z_stat   |-> z_stat,
                               p_value  |-> p_value,
                               t_stat   |-> tt[1],
                               t_pvalue |-> tt[2]]))

---------------------------------------------------------------------------
(* calculate_confidence_intervals *)

\* the literal z_critical = 1.96 of the difference interval (line 142)
ZCriticalDiff == 196

\* the confidence level of ci(), in hundredths: confidence=0.95 (line 123)
Confidence == 95

\* the inner function ci(successes, n, confidence=0.95)
ci(successes, n) ==
    LET prop       == FDiv(Fin(successes * SCALE), Fin(n * SCALE))
        z_critical == NormPpfTwoSided(SCALE - Confidence)
        se         == FSqrt(FDiv(FMul(prop, FSub(One, prop)), Fin(n * SCALE)))
        margin     == FMul(z_critical, se)
    IN  <<FSub(prop, margin), FAdd(prop, margin)>>

DiffCISwapped(control_rate, treatment_rate, n) ==
    LET diff    == FSub(control_rate, treatment_rate)
        se_diff == FSqrt(FAdd(
                       FDiv(FMul(control_rate, FSub(One, control_rate)), Fin(n * SCALE)),
                       FDiv(FMul(treatment_rate, FSub(One, treatment_rate)), Fin(n * SCALE))))
        margin  == FMul(Fin(ZCriticalDiff), se_diff)
    IN  <<FSub(diff, margin), FAdd(diff, margin)>>

\* the interval for the difference of the stored rates (lines 136-143)
DiffCI(control_rate, treatment_rate, n) ==
    LET diff    == FSub(treatment_rate, control_rate)
        se_diff == FSqrt(FAdd(
                       FDiv(FMul(control_rate, FSub(One, control_rate)), Fin(n * SCALE)),
                       FDiv(FMul(treatment_rate, FSub(One, treatment_rate)), Fin(n * SCALE))))
        margin  == FMul(Fin(ZCriticalDiff), se_diff)
    IN  <<FSub(diff, margin), FAdd(diff, margin)>>

calculate_confidence_intervals(d, r, c) ==
    IF ~(RateKeys \subseteq DOMAIN r)
    THEN Raises("KeyError(results)", r)
    ELSE Returns(Store(r, [control_ci   |-> ci(SumSeq(d.control), Len(d.control)),
                           treatment_ci |-> ci(SumSeq(d.treatment), Len(d.treatment)),
                           diff_ci      |-> DiffCI(r["control_rate"], r["treatment_rate"],
                                                   c.n_per_group)]))

---------------------------------------------------------------------------
(* calculate_effect_size *)

\* the thresholds of lines 156 and 158, in hundredths
SmallBelow == 20
MediumBelow == 50

EffectCategorySigned(h) ==
    IF FLt(h, Fin(SmallBelow)) THEN "Small"
    ELSE IF FLt(h, Fin(MediumBelow)) THEN "Medium"
    ELSE "Large"

\* the if/elif/else of lines 156-161
EffectCategory(h) ==
    IF FLt(FAbs(h), Fin(SmallBelow)) THEN "Small"
    ELSE IF FLt(FAbs(h), Fin(MediumBelow)) THEN "Medium"
    ELSE "Large"

\* Cohen's h (lines 153-154)
CohensH(control_rate, treatment_rate) ==
    FScale(2, FSub(ArcsinSqrt(treatment_rate), ArcsinSqrt(control_rate)))

calculate_effect_size(r) ==
    IF ~(RateKeys \subseteq DOMAIN r)
    THEN Raises("KeyError(results)", r)
    ELSE LET h == CohensH(r["control_rate"], r["treatment_rate"])
         IN  Returns(Store(r, [cohens_h |-> h, effect_category |-> EffectCategory(h)]))

---------------------------------------------------------------------------
(* calculate_power *)

\* ppf(0.8), the quantile of the power=0.8 the required size is solved for (line 183)
ZPower80 == 84

\* statsmodels proportion_effectsize(prop1, prop2)
proportion_effectsize(prop1, prop2) ==
    FScale(2, FSub(ArcsinSqrt(prop1), ArcsinSqrt(prop2)))

\* zt_ind_solve_power(effect_size, nobs1, alpha, ratio=1.0, two-sided), solved for power
SolvePower(effect_size, nobs1, alpha) ==
    LET crit  == NormPpfTwoSided(alpha)
        shift == FMul(effect_size, FSqrt(FDiv(Fin(nobs1 * SCALE), Fin(2 * SCALE))))
    IN  FAdd(FSub(One, NormCdf(FSub(crit, shift))), NormCdf(FSub(FNeg(crit), shift)))

\* zt_ind_solve_power(effect_size, power=0.8, alpha, ratio=1.0, two-sided), solved
\* for nobs1.  For a zero effect size the library either raises ValueError
\* ("Cannot detect an effect-size of 0") or, in releases before that check,
\* returns nan from the failed root search: both are outcomes.
SolveNobs(effect_size, alpha) ==
    IF effect_size.v = 0
    THEN {[exc |-> "ValueError", n |-> NaN], [exc |-> "", n |-> NaN]}
    ELSE LET q == FDiv(FAdd(NormPpfTwoSided(alpha), Fin(ZPower80)), FAbs(effect_size))
         IN  {[exc |-> "", n |-> FScale(2, FMul(q, q))]}

\* the outcomes of calculate_power: a set, for the library's two behaviours
calculate_power(r, c) ==
    IF ~(RateKeys \subseteq DOMAIN r)
    THEN {Raises("KeyError(results)", r)}
    ELSE LET effect_size    == proportion_effectsize(r["control_rate"], r["treatment_rate"])
             achieved_power == SolvePower(effect_size, c.n_per_group, c.alpha)
         IN  {IF s.exc # "" THEN Raises(s.exc, r)
              ELSE Returns(Store(r, [achieved_power |-> achieved_power, required_n |-> s.n]))
              : s \in SolveNobs(effect_size, c.alpha)}

---------------------------------------------------------------------------
(* calculate_business_impact *)

\* the defaults of calculate_business_impact (line 194)
DefaultMonthlyVisitors == 100000
DefaultAvgOrderValue == 75

ImpactKeys == {"monthly_visitors", "avg_order_value",
               "additional_conversions", "additional_revenue"}

calculate_business_impact_gross(r, monthly_visitors, avg_order_value) ==
    IF ~(RateKeys \subseteq DOMAIN r)
    THEN Raises("KeyError(results)", r)
    ELSE LET current_conversions    == FScale(monthly_visitors, r["control_rate"])
             projected_conversions  == FScale(monthly_visitors, r["treatment_rate"])
             projected_revenue      == FScale(avg_order_value, projected_conversions)
             additional_conversions == FSub(projected_conversions, current_conversions)
         IN  Returns(Store(r, [monthly_visitors       |-> monthly_visitors,
                               avg_order_value        |-> avg_order_value,
                               additional_conversions |-> additional_conversions,
                               additional_revenue     |-> projected_revenue]))

calculate_business_impact(r, monthly_visitors, avg_order_value) ==
    IF ~(RateKeys \subseteq DOMAIN r)
    THEN Raises("KeyError(results)", r)
    ELSE LET current_conversions    == FScale(monthly_visitors, r["control_rate"])
             projected_conversions  == FScale(monthly_visitors, r["treatment_rate"])
             current_revenue        == FScale(avg_order_value, current_conversions)
             projected_revenue      == FScale(avg_order_value, projected_conversions)
             additional_conversions == FSub(projected_conversions, current_conversions)
             additional_revenue     == FSub(projected_revenue, current_revenue)
         IN  Returns(Store(r, [monthly_visitors       |-> monthly_visitors,
                               avg_order_value        |-> avg_order_value,
                               additional_conversions |-> additional_conversions,
                               additional_revenue     |-> additional_revenue]))

---------------------------------------------------------------------------
(* ABTestAnalyzer.__init__ and _generate_data *)

\* the arguments the constructor is tried with, rates and alpha in hundredths
RateInputs  == {-10, 0, 50, SCALE, SCALE + 10}
SizeInputs  == -1 .. MaxN
AlphaInputs == {1, 5, 10}

NoFirst == [present |-> FALSE, cfg |-> NoCfg, df |-> EmptyDf,
            results |-> EmptyResults, recommendation |-> "none"]

NoArtifacts == [chart |-> FALSE, csv |-> FALSE, warnings |-> 0]

\* _generate_data: the control draws, then the treatment draws, then the frame
generate_data(g, c) ==
    IF BinomialRejects(c.control_rate, c.n_per_group)
    THEN {[exc |-> "ValueError", df |-> EmptyDf, rng |-> g]}
    ELSE LET g1 == Advance(g, c.n_per_group)
         IN  IF BinomialRejects(c.treatment_rate, c.n_per_group)
             THEN {[exc |-> "ValueError", df |-> EmptyDf, rng |-> g1]}
             ELSE {[exc |-> "", rng |-> Advance(g1, c.n_per_group),
                    df  |-> [control |-> cb, treatment |-> tb]]
                   : cb \in Binomial(g, c.control_rate, c.n_per_group),
                     tb \in Binomial(g1, c.treatment_rate, c.n_per_group)}

\* __init__: the attributes, the seed, the data, the empty results
ABTestAnalyzer_init(control_rate, treatment_rate, n_per_group, alpha) ==
    LET c == [control_rate |-> control_rate, treatment_rate |-> treatment_rate,
              n_per_group |-> n_per_group, alpha |-> alpha]
    IN  /\ status = "none"
        /\ \E o \in generate_data(Reseed(rng), c) :
              /\ rng' = o.rng
              /\ exc' = o.exc
              /\ IF o.exc = ""
                 THEN status' = "ready" /\ cfg' = c /\ df' = o.df
                 ELSE status' = o.exc /\ cfg' = NoCfg /\ df' = EmptyDf
        /\ results' = EmptyResults
        /\ UNCHANGED <<stream42, pc, is_significant, recommendation,
                       outputs_dir, artifacts, first>>

---------------------------------------------------------------------------
(* run_full_analysis *)

Stages == <<"basic", "hyp", "ci", "effect", "power", "impact", "recommend">>

NextStageSwapped(stage) ==
    CASE stage = "basic"     -> "ci"
      [] stage = "hyp"       -> "effect"
      [] stage = "ci"        -> "hyp"
      [] stage = "effect"    -> "power"
      [] stage = "power"     -> "impact"
      [] stage = "impact"    -> "recommend"
      [] stage = "recommend" -> "done"

\* the order of the calls in run_full_analysis (lines 221, 230, 241, 249, 256, 263, 271)
NextStage(stage) ==
    CASE stage = "basic"     -> "hyp"
      [] stage = "hyp"       -> "ci"
      [] stage = "ci"        -> "effect"
      [] stage = "effect"    -> "power"
      [] stage = "power"     -> "impact"
      [] stage = "impact"    -> "recommend"
      [] stage = "recommend" -> "done"

\* the keys the prints after a stage read, in the order read
Printed(stage) ==
    CASE stage = "basic"  -> <<"control_rate", "treatment_rate", "absolute_lift", "relative_lift">>
      [] stage = "hyp"    -> <<"z_stat", "p_value">>
      [] stage = "ci"     -> <<"control_ci", "treatment_ci", "diff_ci">>
      [] stage = "effect" -> <<"cohens_h", "effect_category">>
      [] stage = "power"  -> <<"achieved_power", "required_n">>
      [] stage = "impact" -> <<"additional_conversions", "additional_revenue">>

\* the first key of keys that r lacks, "" when it has them all
RECURSIVE FirstMissing(_, _)
FirstMissing(r, keys) ==
    IF keys = <<>> THEN ""
    ELSE IF Head(keys) \notin DOMAIN r THEN Head(keys)
    ELSE FirstMissing(r, Tail(keys))

\* a stage call followed by its prints
StageThenPrint(stage, o) ==
    IF o.exc # "" THEN o
    ELSE IF FirstMissing(o.res, Printed(stage)) # "" THEN Raises("KeyError(results)", o.res)
    ELSE o

RecommendSignificanceOnly(sig, r) ==
    IF sig THEN "proceed" ELSE "insufficient"

\* the branch of lines 271-278
Recommend(sig, r) ==
    IF sig /\ FGt(r["diff_ci"][1], Fin(0)) THEN "proceed" ELSE "insufficient"

\* whether a caller may enter run_full_analysis now
MayCall == status = "ready" /\ (pc = "idle" \/ (mainpc = "none" /\ pc \in {"done", "raised"}))

\* the call enters run_full_analysis (lines 212-220)
run_enter ==
    /\ MayCall
    /\ mainpc \in {"run", "none"}
    /\ pc' = Stages[1]
    /\ exc' = ""
    /\ UNCHANGED <<stream42, rng, status, cfg, df, results, is_significant,
                   recommendation, mainpc, outputs_dir, artifacts, first>>

\* one stage of run_full_analysis with outcome o
RunStep(stage, o) ==
    /\ results' = o.res
    /\ exc' = o.exc
    /\ pc' = IF o.exc = "" THEN NextStage(stage) ELSE "raised"
    /\ UNCHANGED <<stream42, rng, status, cfg, df, recommendation,
                   mainpc, outputs_dir, artifacts, first>>

run_basic ==
    /\ pc = "basic"
    /\ RunStep("basic", StageThenPrint("basic", calculate_basic_metrics(df, results)))
    /\ UNCHANGED is_significant

\* lines 230-236: the test, its prints, and is_significant
run_hyp ==
    /\ pc = "hyp"
    /\ LET o == StageThenPrint("hyp", run_hypothesis_test(df, results))
       IN  /\ RunStep("hyp", o)
           /\ is_significant' = IF o.exc = ""
                                 THEN FLt(o.res["p_value"], Fin(cfg.alpha))
                                 ELSE is_significant

run_ci ==
    /\ pc = "ci"
    /\ RunStep("ci", StageThenPrint("ci", calculate_confidence_intervals(df, results, cfg)))
    /\ UNCHANGED is_significant

run_effect ==
    /\ pc = "effect"
    /\ RunStep("effect", StageThenPrint("effect", calculate_effect_size(results)))
    /\ UNCHANGED is_significant

run_power ==
    /\ pc = "power"
    /\ \E o \in calculate_power(results, cfg) : RunStep("power", StageThenPrint("power", o))
    /\ UNCHANGED is_significant

run_impact ==
    /\ pc = "impact"
    /\ RunStep("impact",
               StageThenPrint("impact",
                   calculate_business_impact(results, DefaultMonthlyVisitors,
                                             DefaultAvgOrderValue)))
    /\ UNCHANGED is_significant

\* lines 268-282: the recommendation, then the return
run_recommend ==
    /\ pc = "recommend"
    /\ IF is_significant /\ "diff_ci" \notin DOMAIN results
       THEN /\ pc' = "raised"
            /\ exc' = "KeyError(results)"
            /\ UNCHANGED recommendation
       ELSE /\ pc' = NextStage("recommend")
            /\ exc' = ""
            /\ recommendation' = Recommend(is_significant, results)
    /\ UNCHANGED <<stream42, rng, status, cfg, df, results, is_significant,
                   mainpc, outputs_dir, artifacts, first>>

run_full_analysis ==
    \/ run_enter
    \/ run_basic
    \/ run_hyp
    \/ run_ci
    \/ run_effect
    \/ run_power
    \/ run_impact
    \/ run_recommend

---------------------------------------------------------------------------
(* main *)

\* line 320: the analyzer is built; an exception of __init__ ends main
main_create ==
    /\ mainpc = "start"
    /\ \E c \in RateInputs, t \in RateInputs, n \in SizeInputs, a \in AlphaInputs :
          ABTestAnalyzer_init(c, t, n, a)
    /\ mainpc' = IF status' = "ready" THEN "run" ELSE "raised"

\* what can happen inside create_visualizations
VisualizationOutcomes == {"saved", "makedirs fails", "savefig fails"}

\* lines 331-334: create_visualizations inside try/except Exception
main_visualize ==
    /\ mainpc = "run"
    /\ pc = "done"
    /\ \E outcome \in VisualizationOutcomes :
          /\ outputs_dir' = (outputs_dir \/ outcome # "makedirs fails")
          /\ artifacts' = IF outcome = "saved"
                           THEN [artifacts EXCEPT !.chart = TRUE]
                           ELSE [artifacts EXCEPT !.warnings = @ + 1]
    /\ mainpc' = "csv"
    /\ UNCHANGED <<stream42, rng, status, cfg, df, results, pc, is_significant,
                   recommendation, exc, first>>

\* what can happen inside results_df.to_csv('outputs/ab_test_results.csv'):
\* without the directory it raises OSError; with it the write may still fail
CsvOutcomes(dir) == IF dir THEN {"saved", "write fails"} ELSE {"no directory"}

\* lines 337-343: the export, outside any try, then the return
main_export ==
    /\ mainpc = "csv"
    /\ \E outcome \in CsvOutcomes(outputs_dir) :
          IF outcome = "saved"
          THEN /\ artifacts' = [artifacts EXCEPT !.csv = TRUE]
               /\ mainpc' = "returned"
               /\ exc' = exc
          ELSE /\ artifacts' = artifacts
               /\ mainpc' = "raised"
               /\ exc' = "OSError"
    /\ UNCHANGED <<stream42, rng, status, cfg, df, results, pc, is_significant,
                   recommendation, outputs_dir, first>>

---------------------------------------------------------------------------
(* The program run by main *)

Streams == [1..StreamLen -> UniformLevels]

Init ==
    /\ stream42 \in Streams
    /\ rng = Unseeded
    /\ status = "none"
    /\ cfg = NoCfg
    /\ df = EmptyDf
    /\ results = EmptyResults
    /\ pc = "idle"
    /\ is_significant = FALSE
    /\ recommendation = "none"
    /\ exc = ""
    /\ mainpc = "start"
    /\ outputs_dir = FALSE        \* created by create_visualizations (line 287)
    /\ artifacts = NoArtifacts
    /\ first = NoFirst

Next ==
    \/ main_create
    \/ run_full_analysis
    \/ main_visualize
    \/ main_export

Spec == Init /\ [][Next]_vars

---------------------------------------------------------------------------
(* Analyzers already constructed, for the runs that start after __init__ *)

\* the valid arguments a client constructs analyzers with: a rate of one half, and
\* the alpha=0.05 of main and of the constructor's default
ClientRate  == SCALE \div 2
ClientAlpha == 5

\* a cohort of n users of which the first k converted
Cohort(k, n) == [i \in 1..n |-> IF i <= k THEN 1 ELSE 0]

\* a stream from which ClientRate draws the frame d (its first StreamLen draws)
StreamFor(d) ==
    LET bits == d.control \o d.treatment
    IN  [i \in 1..StreamLen |-> IF i <= Len(bits) /\ bits[i] = 1 THEN 25 ELSE 75]

\* an analyzer of n users per group, n in sizes, with conversion counts in counts and
\* alpha in alphas, right after __init__ or, with after_basic, after
\* calculate_basic_metrics
InitReady(sizes, counts, alphas, after_basic) ==
    /\ \E n \in sizes, a \in alphas :
          /\ cfg = [control_rate |-> ClientRate, treatment_rate |-> ClientRate,
                    n_per_group |-> n, alpha |-> a]
          /\ rng = Advance(Reseed(Unseeded), 2 * n)
          /\ \E kc \in counts \cap (0..n), kt \in counts \cap (0..n) :
                df = [control |-> Cohort(kc, n), treatment |-> Cohort(kt, n)]
    /\ stream42 = StreamFor(df)
    /\ status = "ready"
    /\ results = IF after_basic THEN calculate_basic_metrics(df, EmptyResults).res
                                ELSE EmptyResults
    /\ pc = "idle"
    /\ is_significant = FALSE
    /\ recommendation = "none"
    /\ exc = ""
    /\ mainpc = "none"
    /\ outputs_dir = FALSE
    /\ artifacts = NoArtifacts
    /\ first = NoFirst

---------------------------------------------------------------------------
(* The stage methods called one by one by a client of the class *)

\* the arguments calculate_business_impact is called with
VisitorInputs == {1000, DefaultMonthlyVisitors}
OrderInputs   == {50, DefaultAvgOrderValue}

\* no call of the analyzer is in progress
Quiet == status = "ready" /\ mainpc = "none" /\ pc \in {"idle", "done", "raised"}

\* a direct call of a stage method with outcome o
Call(o) ==
    /\ Quiet
    /\ results' = o.res
    /\ exc' = o.exc
    /\ UNCHANGED <<stream42, rng, status, cfg, df, pc, is_significant, recommendation,
                   mainpc, outputs_dir, artifacts, first>>

call_basic  == Call(calculate_basic_metrics(df, results))
call_hyp    == Call(run_hypothesis_test(df, results))
call_ci     == Call(calculate_confidence_intervals(df, results, cfg))
call_effect == Call(calculate_effect_size(results))
call_power  == \E o \in calculate_power(results, cfg) : Call(o)
call_impact ==
    \E mv \in VisitorInputs, aov \in OrderInputs :
        Call(calculate_business_impact(results, mv, aov))

NextOps ==
    \/ call_basic
    \/ call_hyp
    \/ call_ci
    \/ call_effect
    \/ call_power
    \/ call_impact
    \/ run_full_analysis

SpecOps == InitReady(1 .. MaxN, 0 .. MaxN, {ClientAlpha}, FALSE) /\ [][NextOps]_vars

---------------------------------------------------------------------------
(* run_full_analysis on analyzers of every cohort pair up to MaxCohort *)

SpecRun ==
    InitReady(1 .. MaxCohort, 0 .. MaxCohort, AlphaInputs, FALSE) /\ [][run_full_analysis]_vars

---------------------------------------------------------------------------
(* Two analyzers of one process, sharing the numpy generator *)

\* the treatment rates and sizes the two analyzers are constructed with
PairRates == {ClientRate, SCALE}
PairSizes == (MaxN - 1) .. MaxN

InitPair ==
    /\ stream42 \in Streams
    /\ rng = Unseeded
    /\ status = "none"
    /\ cfg = NoCfg
    /\ df = EmptyDf
    /\ results = EmptyResults
    /\ pc = "idle"
    /\ is_significant = FALSE
    /\ recommendation = "none"
    /\ exc = ""
    /\ mainpc = "none"
    /\ outputs_dir = FALSE
    /\ artifacts = NoArtifacts
    /\ first = NoFirst

client_create ==
    /\ mainpc = "none"
    /\ \E t \in PairRates, n \in PairSizes :
          ABTestAnalyzer_init(ClientRate, t, n, ClientAlpha)
    /\ UNCHANGED mainpc

\* some other code draws once from the shared generator
other_draw ==
    /\ status = "none"
    /\ rng' = Advance(rng, 1)
    /\ UNCHANGED <<stream42, status, cfg, df, results, pc, is_significant, recommendation,
                   exc, mainpc, outputs_dir, artifacts, first>>

\* the caller keeps the analyzer it ran and goes on to construct another
keep_first ==
    /\ status = "ready"
    /\ pc = "done"
    /\ ~first.present
    /\ first' = [present |-> TRUE, cfg |-> cfg, df |-> df, results |-> results,
                 recommendation |-> recommendation]
    /\ status' = "none"
    /\ cfg' = NoCfg
    /\ df' = EmptyDf
    /\ results' = EmptyResults
    /\ pc' = "idle"
    /\ is_significant' = FALSE
    /\ recommendation' = "none"
    /\ UNCHANGED <<stream42, rng, exc, mainpc, outputs_dir, artifacts>>

NextPair ==
    \/ client_create
    \/ run_full_analysis
    \/ other_draw
    \/ keep_first

SpecPair == InitPair /\ [][NextPair]_vars

---------------------------------------------------------------------------
(* Analyzers whose cohorts of SCALE users give every rate in hundredths *)

\* the conversion counts the effect-size and business-impact runs start from
EffectCounts == 0 .. SCALE
ImpactCounts == {0, 10, 12, 50, SCALE}

NextEffect == call_effect

SpecEffect == InitReady({SCALE}, EffectCounts, {ClientAlpha}, TRUE) /\ [][NextEffect]_vars

\* business-impact arguments, the defaults and the documented scenario among them
NextImpact ==
    \E mv \in {0, 1} \cup VisitorInputs, aov \in {0} \cup OrderInputs :
        Call(calculate_business_impact(results, mv, aov))

SpecImpact == InitReady({SCALE}, ImpactCounts, {ClientAlpha}, TRUE) /\ [][NextImpact]_vars

---------------------------------------------------------------------------
(* Properties *)

\* the keys a stage stores (lines 83-86, 114-117, 145-147, 163-164, 189-190, 205-208)
KeysWrittenBy(stage) ==
    CASE stage = "basic"  -> {"control_rate", "treatment_rate", "absolute_lift", "relative_lift"}
      [] stage = "hyp"    -> {"z_stat", "p_value", "t_stat", "t_pvalue"}
      [] stage = "ci"     -> {"control_ci", "treatment_ci", "diff_ci"}
      [] stage = "effect" -> {"cohens_h", "effect_category"}
      [] stage = "power"  -> {"achieved_power", "required_n"}
      [] stage = "impact" -> ImpactKeys
      [] stage = "recommend" -> {}

\* the keys stored by the stages before the i-th
KeysBefore(i) == UNION {KeysWrittenBy(Stages[j]) : j \in 1..(i - 1)}

C2_ArtifactFailureNeverAborts ==
    (mainpc # "start" /\ pc = "done") => mainpc # "raised"

\* C3: an analyzer that exists was constructed from a valid configuration: rates in
\* [0, 1] and n_per_group > 0; any other configuration raised and left no analyzer.
C3_InvalidConfigRejected ==
    status = "ready" =>
        /\ cfg.control_rate \in 0..SCALE
        /\ cfg.treatment_rate \in 0..SCALE
        /\ cfg.n_per_group > 0

\* C4: the relative lift, the z statistic and the p-value are never stored as a
\* NaN or an infinity: a degenerate input is recorded as an explicit error instead.
C4_DegenerateSurfaced ==
    \A k \in {"relative_lift", "z_stat", "p_value"} \cap DOMAIN results : IsFin(results[k])

\* C5: a second analyzer constructed with the arguments of an earlier one holds the
\* same dataset and, after run_full_analysis, the same results and recommendation,
\* whatever was drawn from the shared generator in between.
C5_Deterministic ==
    (first.present /\ status = "ready" /\ cfg = first.cfg) =>
        /\ df = first.df
        /\ pc = "done" => (results = first.results /\ recommendation = first.recommendation)

\* two completed analyzers of equal arguments whose control cohort is mixed
C5_Witness ==
    /\ first.present
    /\ status = "ready"
    /\ cfg = first.cfg
    /\ pc = "done"
    /\ SumSeq(df.control) \notin {0, cfg.n_per_group}
    /\ rng.seeded

\* C6 as stated: no step removes a key of results or changes the value of a key.
C6_WriteOnce ==
    [][\A k \in DOMAIN results : k \in DOMAIN results' /\ results'[k] = results[k]]_vars

\* C6 as amended: no step removes a key of results, and no step changes the value of
\* a key other than the four keys calculate_business_impact stores, which hold the
\* values of its latest call.
C6_AppendOnly ==
    [][\A k \in DOMAIN results :
           /\ k \in DOMAIN results'
           /\ k \notin ImpactKeys => results'[k] = results[k]]_vars

\* a completed run whose business-impact keys a later call has overwritten
C6_Witness ==
    /\ pc = "done"
    /\ DOMAIN results = KeysBefore(Len(Stages))
    /\ results["monthly_visitors"] # DefaultMonthlyVisitors

\* C7: inside run_full_analysis the stages run in the order of Stages, each on the
\* keys of exactly the stages before it, and no stage or print reads a missing key.
C7_StagesInOrder ==
    /\ exc # "KeyError(results)"
    /\ \A i \in DOMAIN Stages : pc = Stages[i] => DOMAIN results = KeysBefore(i)
    /\ pc = "done" => DOMAIN results = KeysBefore(Len(Stages))

\* the run has reached the recommendation with every stage's keys stored
C7_Witness ==
    /\ pc = "recommend"
    /\ DOMAIN results = KeysBefore(Len(Stages))
    /\ exc = ""

\* C8: the stored category depends on |h| alone: below 0.2 Small, from 0.2 and below
\* 0.5 Medium, from 0.5 Large; h and -h are classified alike.
C8_Category ==
    "cohens_h" \in DOMAIN results =>
        LET h == results["cohens_h"].v
            a == IF h < 0 THEN -h ELSE h
        IN  /\ results["effect_category"] =
                   (IF a < 20 THEN "Small" ELSE IF a < 50 THEN "Medium" ELSE "Large")
            /\ EffectCategory(Fin(-h)) = results["effect_category"]

\* an effect size of exactly -0.2, classified Medium
C8_Witness ==
    /\ "cohens_h" \in DOMAIN results
    /\ results["cohens_h"] = Fin(-20)
    /\ results["effect_category"] = "Medium"

\* C9: the stored additional_conversions is monthly_visitors * (treatment_rate -
\* control_rate), the stored additional_revenue is that times avg_order_value, its
\* sign is the sign of the rate difference for positive visitors and order value,
\* and 100000 visitors, rates 0.10 and 0.12, order value 50 give 100000.
C9_Impact ==
    "additional_revenue" \in DOMAIN results =>
        LET mv  == results["monthly_visitors"]
            aov == results["avg_order_value"]
            d   == results["treatment_rate"].v - results["control_rate"].v
        IN  /\ results["additional_conversions"] = Fin(mv * d)
            /\ results["additional_revenue"] = Fin(mv * d * aov)
            /\ (mv > 0 /\ aov > 0) => Sign(results["additional_revenue"].v) = Sign(d)
            /\ (mv = 100000 /\ aov = 50 /\ results["control_rate"].v = 10
                    /\ results["treatment_rate"].v = 12)
               => results["additional_revenue"] = Fin(100000 * SCALE)

\* the documented scenario has been computed
C9_Witness ==
    /\ "additional_revenue" \in DOMAIN results
    /\ results["monthly_visitors"] = 100000
    /\ results["avg_order_value"] = 50
    /\ results["control_rate"] = Fin(10)
    /\ results["treatment_rate"] = Fin(12)

\* C10: a run that ends with "proceed" observed strictly more treatment conversions
\* than control conversions: the lift and the additional revenue are positive.
C10_ProceedOnlyIfBetter ==
    (pc = "done" /\ recommendation = "proceed") =>
        /\ SumSeq(df.treatment) > SumSeq(df.control)
        /\ results["absolute_lift"].v > 0
        /\ IsFin(results["additional_revenue"])
        /\ results["additional_revenue"].v > 0

\* a rollout recommended over a control group that did convert
C10_Witness ==
    /\ pc = "done"
    /\ recommendation = "proceed"
    /\ SumSeq(df.control) > 0

===========================================================================
